---------------------------- MODULE Spec2Model ----------------------------
(***************************************************************************)
(* LibbyBookBackup: the Record Merger (scripts/build_index.py              *)
(* merge_duplicate_files, scripts/merge_duplicates.py main/merge_group)    *)
(* and the Index Builder (scripts/build_index.py parse_book, build_index)  *)
(* as state machines over a directory of book-record files.                *)
(***************************************************************************)
EXTENDS Integers, Sequences, FiniteSets, TLC

VARIABLES
    disk,      \* the books directory: file name -> parsed content of the file
    orig,      \* the directory as it was before the first run (history)
    impl,      \* which script runs the merge: "build_index" or "merge_duplicates"
    pc,        \* position of the running script
    run,       \* 1 during the first run of the merger, 2 during the second
    groups,    \* dupe_groups still to process; the head is the current group
    merged,    \* the merged record of the current group (in memory)
    keeper,    \* base_path / keeper_path of the current group
    ops,       \* file operations of the current group still to execute
    deleted,   \* deleted / deleted_count of the current run
    failedKey, \* group key of the group whose file operation raised
    after1,    \* the directory at the end of the first run (history)
    books,     \* build_index: the parsed entries
    by_title,  \* build_index: the dedup dict, in insertion order
    bi,        \* build_index: index of the next book of the dedup loop
    deduped    \* build_index: the returned list

vars == <<disk, orig, impl, pc, run, groups, merged, keeper, ops, deleted,
          failedKey, after1, books, by_title, bi, deduped>>

mergerVars == <<impl, run, groups, merged, keeper, ops, deleted, failedKey, after1>>
indexVars == <<books, by_title, bi, deduped>>

---------------------------------------------------------------------------
(* Bounds of the model. *)

MaxDate == 2    \* export timestamps 1..MaxDate embedded in file names
MaxTs == 2      \* event timestamps 1..MaxTs
MaxPct == 2     \* progress percents 0..MaxPct

---------------------------------------------------------------------------
(* JSON values. *)

\* A key that is missing from a JSON object (title, author, format are coded
\* 1, 2, ... in the order of the strings they stand for; 0 is no string).
Missing == 0

\* A highlight without a "quote" key.
NoQuote == "<no quote>"

\* A file name without a "(downloaded YYYY-MM-DD HH-MM)" part.
NoDate == 0

\* Optional numbers: a missing key, JSON null, or a number.
Absent == [kind |-> "absent", val |-> 0]
Null == [kind |-> "null", val |-> 0]
Num(n) == [kind |-> "num", val |-> n]

\* `x or 0` for an optional number x (None and 0 are falsy).
OrZero(x) == IF x.kind = "num" THEN x.val ELSE 0

---------------------------------------------------------------------------
(* File names.  A name is stem + " (downloaded <date>).json" or stem +     *)
(* ".json"; stems are distinct strings of one length, ordered as their     *)
(* numbers, and date texts are ordered as their numbers.                   *)

StemText == <<"a", "b">>
DateText == <<"2024-01-01 00-00", "2024-06-01 00-00", "2025-01-01 00-00",
              "2025-06-01 00-00">>

FileNames == [stem : 1..Len(StemText), date : {NoDate} \cup (1..MaxDate)]

\* Path.name of a file.
FileNameText(f) ==
    StemText[f.stem]
        \o (IF f.date = NoDate THEN "" ELSE " (downloaded " \o DateText[f.date] \o ")")
        \o ".json"

\* f < g as Python compares the two names: "a (downloaded ...).json" sorts
\* before "a.json" because " " < ".".
FileLess(f, g) ==
    \/ f.stem < g.stem
    \/ /\ f.stem = g.stem
       /\ f.date # NoDate
       /\ (g.date = NoDate \/ f.date < g.date)

\* sorted(BOOKS_DIR.glob("*.json"))
RECURSIVE SortedFiles(_)
SortedFiles(S) ==
    IF S = {} THEN <<>>
    ELSE LET m == CHOOSE f \in S : \A g \in S : g = f \/ FileLess(f, g)
         IN  <<m>> \o SortedFiles(S \ {m})

\* A variant that sorts a name without a date first instead of last.
extract_download_date_missing_first(f) == f.date

\* The sort key of a real date is below the sentinel "9999-99-99 99-99".
SentinelDate == MaxDate + 1

extract_download_date(f) == IF f.date = NoDate THEN SentinelDate ELSE f.date

---------------------------------------------------------------------------
(* Python's list and dict idioms. *)

\* Sorting and the seen-set loops work on (k, v): a value v under its key k.
Values(s) == [i \in 1..Len(s) |-> s[i].v]

\* Insert x into the sorted s behind every element whose key is <= x.k.
RECURSIVE InsertByKey(_, _)
InsertByKey(s, x) ==
    IF s = <<>> THEN <<x>>
    ELSE IF Head(s).k <= x.k THEN <<Head(s)>> \o InsertByKey(Tail(s), x)
    ELSE <<x>> \o s

\* list.sort / sorted: a stable sort, ascending in k.
RECURSIVE StableSort(_)
StableSort(s) ==
    IF s = <<>> THEN <<>>
    ELSE InsertByKey(StableSort(SubSeq(s, 1, Len(s) - 1)), s[Len(s)])

\* The `if key not in seen: seen.add(key); all.append(x)` loop.
RECURSIVE FirstSeen(_)
FirstSeen(s) ==
    IF s = <<>> THEN <<>>
    ELSE LET r == FirstSeen(SubSeq(s, 1, Len(s) - 1))
             x == s[Len(s)]
         IN  IF \E i \in 1..Len(r) : r[i].k = x.k THEN r ELSE Append(r, x)

RECURSIVE Concat(_)
Concat(ss) == IF ss = <<>> THEN <<>> ELSE Head(ss) \o Concat(Tail(ss))

Max(S) == CHOOSE x \in S : \A y \in S : y <= x
Min(S) == CHOOSE x \in S : \A y \in S : x <= y

Range(s) == {s[i] : i \in 1..Len(s)}

---------------------------------------------------------------------------
(* The Record Merger. *)

\* A variant that reads the author with .get(): a missing author is a key too.
GroupableWithoutAuthor(data) ==
    /\ data.json
    /\ data.object
    /\ data.title # Missing
    /\ data.format # Missing

\* The try block of the scan: f.read_text() and json.loads succeed, data is
\* an object and data["readingJourney"]["title"]["text"], ["author"] and
\* ["cover"]["format"] all exist; `except Exception` skips every other file.
Groupable(data) ==
    /\ data.json
    /\ data.object
    /\ data.title # Missing
    /\ data.author # Missing
    /\ data.format # Missing

GroupKey(data) == <<data.title, data.author, data.format>>

\* Tuple comparison of two group keys.
KeyLess(a, b) ==
    \/ a[1] < b[1]
    \/ a[1] = b[1] /\ a[2] < b[2]
    \/ a[1] = b[1] /\ a[2] = b[2] /\ a[3] < b[3]

\* groups: defaultdict(list) filled over the sorted files; a dict keeps its
\* keys in the order of their first insertion.
LoadGroups(d) ==
    LET files == SortedFiles(DOMAIN d)
        all == [i \in 1..Len(files) |-> [path |-> files[i], data |-> d[files[i]]]]
        fd == SelectSeq(all, LAMBDA p : Groupable(p.data))
        keys == Values(FirstSeen([i \in 1..Len(fd) |-> [k |-> GroupKey(fd[i].data), v |-> fd[i]]]))
    IN  [i \in 1..Len(keys) |->
            [key |-> GroupKey(keys[i].data),
             files_data |-> SelectSeq(fd, LAMBDA p : GroupKey(p.data) = GroupKey(keys[i].data))]]

\* sorted(dupe_groups.items()) of merge_duplicates.main
SortGroupsByKey(gs) ==
    LET rank(g) == Cardinality({h \in Range(gs) : KeyLess(h.key, g.key)})
    IN  Values(StableSort([i \in 1..Len(gs) |-> [k |-> rank(gs[i]), v |-> gs[i]]]))

\* dupe_groups, in the order the script iterates over them.
DupeGroups(script, d) ==
    LET dupes == SelectSeq(LoadGroups(d), LAMBDA g : Len(g.files_data) > 1)
    IN  IF script = "merge_duplicates" THEN SortGroupsByKey(dupes) ELSE dupes

\* files_data.sort(key=lambda x: extract_download_date(x[0].name))
SortByDownloadDate(files_data) ==
    Values(StableSort([i \in 1..Len(files_data) |->
        [k |-> extract_download_date(files_data[i].path), v |-> files_data[i]]]))

\* hl.get("quote", "")
QuoteOf(hl) == IF hl.quote = NoQuote THEN "" ELSE hl.quote

HighlightKey(hl) == <<hl.timestamp, QuoteOf(hl)>>
BookmarkKey(bm) == bm.timestamp

\* sorted(all, key=lambda x: x.get("timestamp", 0))
SortByTimestamp(s) ==
    Values(StableSort([i \in 1..Len(s) |-> [k |-> s[i].timestamp, v |-> s[i]]]))

\* A variant that deduplicates the highlights by their timestamp alone.
UnionHighlightsByTimestamp(sorted) ==
    LET all == Concat([i \in 1..Len(sorted) |-> sorted[i].data.highlights])
    IN  Values(FirstSeen([i \in 1..Len(all) |-> [k |-> all[i].timestamp, v |-> all[i]]]))

\* all_hl / all_highlights, before the final sort
UnionHighlights(sorted) ==
    LET all == Concat([i \in 1..Len(sorted) |-> sorted[i].data.highlights])
    IN  Values(FirstSeen([i \in 1..Len(all) |-> [k |-> HighlightKey(all[i]), v |-> all[i]]]))

\* all_bm / all_bookmarks, before the final sort
UnionBookmarks(sorted) ==
    LET all == Concat([i \in 1..Len(sorted) |-> sorted[i].data.bookmarks])
    IN  Values(FirstSeen([i \in 1..Len(all) |-> [k |-> BookmarkKey(all[i]), v |-> all[i]]]))

\* max(..., key=len): the first circulation list of the greatest length
BestCirculation(sorted) ==
    LET longest == Max({Len(sorted[i].data.circulation) : i \in 1..Len(sorted)})
        first == Min({i \in 1..Len(sorted) : Len(sorted[i].data.circulation) = longest})
    IN  sorted[first].data.circulation

\* max(d["readingJourney"].get("percent", 0) or 0 ...)
BestPercent(sorted) == Max({OrZero(sorted[i].data.percent) : i \in 1..Len(sorted)})

\* A variant that writes best_pct without the `if best_pct` test.
MergedPercentUnconditional(base, best_pct) == Num(best_pct)

\* if best_pct: merged["readingJourney"]["percent"] = best_pct
MergedPercent(base, best_pct) == IF best_pct # 0 THEN Num(best_pct) ELSE base.percent

\* A variant that leaves the last redundant file in place.
PathsToDeleteButLast(sorted, keeper_path) ==
    LET rest == SelectSeq(sorted, LAMBDA p : p.path # keeper_path)
    IN  [i \in 1..(Len(rest) - 1) |-> rest[i].path]

\* paths_to_delete / the `if p != base_path` loop
PathsToDelete(sorted, keeper_path) ==
    LET rest == SelectSeq(sorted, LAMBDA p : p.path # keeper_path)
    IN  [i \in 1..Len(rest) |-> rest[i].path]

\* merge_group, and lines 93-124 of merge_duplicate_files
merge_group(files_data) ==
    LET sorted == SortByDownloadDate(files_data)
        base_path == sorted[1].path
        base == sorted[1].data
    IN  [merged |-> [base EXCEPT !.highlights = SortByTimestamp(UnionHighlights(sorted)),
                                 !.bookmarks = SortByTimestamp(UnionBookmarks(sorted)),
                                 !.circulation = BestCirculation(sorted),
                                 !.percent = MergedPercent(base, BestPercent(sorted))],
         keeper_path |-> base_path,
         paths_to_delete |-> PathsToDelete(sorted, base_path)]

\* A variant that removes the redundant files before it writes the keeper.
GroupOpsRemoveFirst(m) ==
    [i \in 1..Len(m.paths_to_delete) |-> [op |-> "remove", path |-> m.paths_to_delete[i]]]
        \o <<[op |-> "write", path |-> m.keeper_path]>>

\* The file operations of one group, in program order: the merged content is
\* written to the keeper, then each redundant file is removed.
GroupOps(m) ==
    <<[op |-> "write", path |-> m.keeper_path]>>
        \o [i \in 1..Len(m.paths_to_delete) |-> [op |-> "remove", path |-> m.paths_to_delete[i]]]

---------------------------------------------------------------------------
(* The Index Builder. *)

\* A record without a "titleId" key.
NoTitleId == "<no titleId>"

\* timestamps = [c["timestamp"] for c in circulation if "timestamp" in c]
CirculationTimestamps(circulation) ==
    {circulation[i].timestamp : i \in {j \in 1..Len(circulation) : circulation[j].hasTs}}

\* except (json.JSONDecodeError, OSError): parse_book returns None, the file
\* is skipped.
Skips(data) == ~data.json /\ data.error \in {"JSONDecodeError", "OSError"}

\* parse_book raises: open / json.load raise another exception than the two
\* it catches, or the JSON value is not an object and data.get raises
\* AttributeError.
Raises(data) ==
    \/ ~data.json /\ data.error \notin {"JSONDecodeError", "OSError"}
    \/ data.json /\ ~data.object

\* parse_book, for a file that holds a JSON object: the fields of the entry
\* that the dedup pass, the sort and the counts read.
parse_book(f, data) ==
    LET timestamps == CirculationTimestamps(data.circulation)
    IN  [file |-> f,
         titleId |-> IF data.titleId = NoTitleId THEN "" ELSE data.titleId,
         percent |-> IF data.percent = Absent THEN Null ELSE data.percent,
         highlightCount |-> Len(data.highlights),
         bookmarkCount |-> Len(data.bookmarks),
         firstBorrowed |-> IF timestamps = {} THEN Null ELSE Num(Min(timestamps)),
         lastActivity |-> IF timestamps = {} THEN Null ELSE Num(Max(timestamps)),
         circulationCount |-> Len(data.circulation)]

\* books after the `for fp in files` loop has gone through files: the
\* entries of the files that are not skipped, in the order of their names.
BooksOf(d, files) ==
    LET kept == SelectSeq(files, LAMBDA f : ~Skips(d[f]))
    IN  [i \in 1..Len(kept) |-> parse_book(kept[i], d[kept[i]])]

\* The files the loop has gone through when parse_book first raises (all of
\* them when it never does).
FilesBeforeRaise(d) ==
    LET files == SortedFiles(DOMAIN d)
        raising == {i \in 1..Len(files) : Raises(d[files[i]])}
    IN  IF raising = {} THEN files ELSE SubSeq(files, 1, Min(raising) - 1)

ParsedBooks(d) == BooksOf(d, FilesBeforeRaise(d))

\* A dict is a sequence of (key, book) in the order of first insertion.
DictHas(dict, k) == \E i \in 1..Len(dict) : dict[i].key = k
DictGet(dict, k) == dict[CHOOSE i \in 1..Len(dict) : dict[i].key = k].book
DictSet(dict, k, book) ==
    IF DictHas(dict, k)
    THEN [i \in 1..Len(dict) |-> IF dict[i].key = k THEN [key |-> k, book |-> book] ELSE dict[i]]
    ELSE Append(dict, [key |-> k, book |-> book])

\* The body of the `for book in books` loop.
DedupInsert(dict, book) ==
    IF book.titleId = ""
    THEN DictSet(dict, FileNameText(book.file), book)
    ELSE IF \/ ~DictHas(dict, book.titleId)
            \/ FileLess(DictGet(dict, book.titleId).file, book.file)
    THEN DictSet(dict, book.titleId, book)
    ELSE dict

\* A variant that sorts ascending (reverse=True is left out).
SortByActivityAscending(dict) ==
    Values(StableSort([i \in 1..Len(dict) |->
        [k |-> OrZero(dict[i].book.lastActivity), v |-> dict[i].book]]))

\* sorted(by_title.values(), key=lambda b: b.get("lastActivity") or 0,
\* reverse=True): stable, descending.
SortByActivity(dict) ==
    Values(StableSort([i \in 1..Len(dict) |->
        [k |-> 0 - OrZero(dict[i].book.lastActivity), v |-> dict[i].book]]))

---------------------------------------------------------------------------
(* The directories the runs start from. *)

Record(key, pct, hl, bm, circ, tid) ==
    [json |-> TRUE, object |-> TRUE, error |-> "", titleId |-> tid,
     title |-> key[1], author |-> key[2], format |-> key[3],
     percent |-> pct, highlights |-> hl, bookmarks |-> bm, circulation |-> circ]

\* A file that json.loads rejects with JSONDecodeError: no JSON at all, or a
\* strict prefix of a JSON document.
BadJson ==
    [json |-> FALSE, object |-> FALSE, error |-> "JSONDecodeError", titleId |-> "",
     title |-> Missing, author |-> Missing, format |-> Missing,
     percent |-> Absent, highlights |-> <<>>, bookmarks |-> <<>>, circulation |-> <<>>]

\* A file whose bytes are not UTF-8: reading it raises UnicodeDecodeError.
BadUtf8 == [BadJson EXCEPT !.error = "UnicodeDecodeError"]

\* A file that holds a JSON value that is not an object (null, a list).
NotObject == [BadJson EXCEPT !.json = TRUE, !.error = ""]

\* The files that are no record.
NoRecords == {BadJson, BadUtf8, NotObject}

\* (Dune, Herbert, ebook) and (Dune, Herbert, audiobook): "audiobook" < "ebook".
Dune == <<1, 1, 2>>
DuneAudio == <<1, 1, 1>>
\* Records without a title, an author or a format.
Unkeyed == {<<Missing, 1, 1>>, <<1, Missing, 1>>, <<1, 1, Missing>>}

Highlights == [timestamp : 1..MaxTs, quote : {NoQuote, "q"}]
Bookmarks == [timestamp : 1..MaxTs]
Percents == {Absent, Null} \cup {Num(n) : n \in 0..MaxPct}

\* Circulation histories of different lengths, and two of one length.
Event(ts) == [hasTs |-> TRUE, timestamp |-> ts]
NoTsEvent == [hasTs |-> FALSE, timestamp |-> 0]
Circulations == {<<>>, <<Event(1)>>, <<Event(MaxTs)>>, <<NoTsEvent, Event(1)>>}

SeqsUpTo(S, n) == UNION {[1..k -> S] : k \in 0..n}

\* The sets of n file names.
NameSets(n) == {S \in SUBSET FileNames : Cardinality(S) = n}

\* Two exports of one book that differ in their highlights.
HighlightContents ==
    {Record(Dune, Absent, hl, <<>>, <<>>, "T1") : hl \in SeqsUpTo(Highlights, 2)}

\* Two exports of one book that differ in their bookmarks and circulation.
BookmarkContents ==
    {Record(Dune, Absent, <<>>, bm, circ, "T1") :
        bm \in SeqsUpTo(Bookmarks, 2), circ \in Circulations}

\* Three exports of one book that differ in their progress.
ProgressContents ==
    {Record(Dune, p, <<>>, <<>>, <<>>, "T1") : p \in Percents}

\* Files that differ in their group key and in whether they can be grouped
\* at all; each record carries a highlight and a bookmark that depend on the
\* file's name.
OwnRecord(f, k) ==
    Record(k, Absent, <<[timestamp |-> f.stem, quote |-> "q"]>>,
           <<[timestamp |-> IF f.date = NoDate THEN 1 ELSE f.date]>>, <<>>, "T1")

IdentityContents(f) ==
    NoRecords \cup {OwnRecord(f, k) : k \in {Dune, DuneAudio} \cup Unkeyed}

TwoBookContents(f) ==
    {BadJson} \cup {OwnRecord(f, k) : k \in {Dune, DuneAudio}}

\* Files that differ in their titleId: none, empty, an identifier, or a
\* string that is also the name of a file.
TitleIds ==
    {NoTitleId, "", "T1", "T2"} \cup {FileNameText(g) : g \in {h \in FileNames : h.date = NoDate}}

TitleIdContents ==
    NoRecords \cup {Record(Dune, Absent, <<>>, <<>>, <<>>, tid) : tid \in TitleIds}

\* Records without a titleId that differ in their circulation history.
Histories ==
    {<<>>, <<NoTsEvent>>}
    \cup {<<Event(t)>> : t \in 1..MaxTs}
    \cup {<<Event(t), Event(u)>> : t, u \in 1..MaxTs}

ActivityContents ==
    {Record(Dune, Absent, <<>>, <<>>, circ, "") : circ \in Histories}

\* Records without a titleId that differ in their progress.
IndexPercentContents ==
    {Record(Dune, p, <<>>, <<>>, <<>>, "") : p \in Percents}

IdentityDirs(S) ==
    {d \in [S -> UNION {IdentityContents(f) : f \in S}] :
        \A f \in S : d[f] \in IdentityContents(f)}

TwoBookDirs(S) ==
    {d \in [S -> UNION {TwoBookContents(f) : f \in S}] :
        \A f \in S : d[f] \in TwoBookContents(f)}

\* The directories of the merger's runs: two exports that differ in their
\* events, three that differ in their progress, three files of any kind, and
\* four files of two books (two duplicate groups) or unparseable.
Directories ==
    UNION {[S -> HighlightContents] : S \in NameSets(2)}
    \cup UNION {[S -> BookmarkContents] : S \in NameSets(2)}
    \cup UNION {[S -> ProgressContents] : S \in NameSets(3)}
    \cup UNION {IdentityDirs(S) : S \in NameSets(3)}
    \cup UNION {TwoBookDirs(S) : S \in NameSets(4)}

\* The directories of build_index: two or three files that differ in their
\* titleId or are no record, three that differ in their last activity, and
\* two that differ in their progress.
IndexDirectories ==
    UNION {[S -> TitleIdContents] : S \in NameSets(2) \cup NameSets(3)}
    \cup UNION {[S -> ActivityContents] : S \in NameSets(3)}
    \cup UNION {[S -> IndexPercentContents] : S \in NameSets(2)}

---------------------------------------------------------------------------
(* The merger as a state machine. *)

NoKey == <<Missing, Missing, Missing>>

InitMerger ==
    /\ disk \in Directories
    /\ orig = disk
    /\ after1 = disk
    /\ impl \in {"build_index", "merge_duplicates"}
    /\ pc = "scan"
    /\ run = 1
    /\ groups = <<>>
    /\ merged = BadJson
    /\ keeper = CHOOSE f \in FileNames : TRUE
    /\ ops = <<>>
    /\ deleted = 0
    /\ failedKey = NoKey
    /\ books = <<>>
    /\ by_title = <<>>
    /\ bi = 1
    /\ deduped = <<>>

\* The scan of the directory (the grouping loop and dupe_groups).
Scan ==
    /\ pc = "scan"
    /\ groups' = DupeGroups(impl, disk)
    /\ pc' = IF groups' = <<>> THEN "done" ELSE "merge"
    /\ UNCHANGED <<disk, orig, impl, run, merged, keeper, ops, deleted, failedKey, after1>>
    /\ UNCHANGED indexVars

\* The in-memory merge of the current group.
Merge ==
    /\ pc = "merge"
    /\ LET m == merge_group(Head(groups).files_data)
       IN  /\ merged' = m.merged
           /\ keeper' = m.keeper_path
           /\ ops' = GroupOps(m)
    /\ pc' = "apply"
    /\ UNCHANGED <<disk, orig, impl, run, groups, deleted, failedKey, after1>>
    /\ UNCHANGED indexVars

\* After the last file operation of a group the loop goes on to the next one.
AfterOp(rest) ==
    /\ ops' = rest
    /\ IF rest # <<>> THEN pc' = "apply" /\ groups' = groups
       ELSE /\ groups' = Tail(groups)
            /\ pc' = IF Tail(groups) = <<>> THEN "done" ELSE "merge"

\* with open(base_path, "w") as f: json.dump(merged, f, indent=2)
WriteMerged ==
    /\ pc = "apply"
    /\ ops # <<>>
    /\ Head(ops).op = "write"
    /\ disk' = [disk EXCEPT ![Head(ops).path] = merged]
    /\ AfterOp(Tail(ops))
    /\ UNCHANGED <<orig, impl, run, merged, keeper, deleted, failedKey, after1>>
    /\ UNCHANGED indexVars

\* os.remove(p); deleted += 1
RemoveRedundant ==
    /\ pc = "apply"
    /\ ops # <<>>
    /\ Head(ops).op = "remove"
    /\ disk' = [f \in DOMAIN disk \ {Head(ops).path} |-> disk[f]]
    /\ deleted' = deleted + 1
    /\ AfterOp(Tail(ops))
    /\ UNCHANGED <<orig, impl, run, merged, keeper, failedKey, after1>>
    /\ UNCHANGED indexVars

\* open(base_path, "w") has truncated the keeper and json.dump (or the
\* process) stops before the content is complete: the keeper is left a strict
\* prefix of the dump, which is no JSON; nothing catches the error, the run
\* ends.
WriteTruncates ==
    /\ pc = "apply"
    /\ ops # <<>>
    /\ Head(ops).op = "write"
    /\ disk' = [disk EXCEPT ![Head(ops).path] = BadJson]
    /\ pc' = "crashed"
    /\ failedKey' = Head(groups).key
    /\ UNCHANGED <<orig, impl, run, groups, merged, keeper, ops, deleted, after1>>
    /\ UNCHANGED indexVars

\* open() or os.remove() raises OSError before it changes anything: nothing
\* catches it, the run ends.
OperationFails ==
    /\ pc = "apply"
    /\ ops # <<>>
    /\ pc' = "crashed"
    /\ failedKey' = Head(groups).key
    /\ UNCHANGED <<disk, orig, impl, run, groups, merged, keeper, ops, deleted, after1>>
    /\ UNCHANGED indexVars

\* The merger is run a second time on the directory the first run left.
RunAgain ==
    /\ pc = "done"
    /\ run = 1
    /\ run' = 2
    /\ after1' = disk
    /\ deleted' = 0
    /\ pc' = "scan"
    /\ UNCHANGED <<disk, orig, impl, groups, merged, keeper, ops, failedKey>>
    /\ UNCHANGED indexVars

NextMerger ==
    \/ Scan
    \/ Merge
    \/ WriteMerged
    \/ WriteTruncates
    \/ RemoveRedundant
    \/ OperationFails
    \/ RunAgain

SpecMerger == InitMerger /\ [][NextMerger]_vars

---------------------------------------------------------------------------
(* build_index as a state machine. *)

InitIndex ==
    /\ disk \in IndexDirectories
    /\ orig = disk
    /\ after1 = disk
    /\ impl = "build_index"
    /\ pc = "parse"
    /\ run = 1
    /\ groups = <<>>
    /\ merged = BadJson
    /\ keeper = CHOOSE f \in FileNames : TRUE
    /\ ops = <<>>
    /\ deleted = 0
    /\ failedKey = NoKey
    /\ books = <<>>
    /\ by_title = <<>>
    /\ bi = 1
    /\ deduped = <<>>

\* The `for fp in files` loop, when parse_book raises for no file.
ParseBooks ==
    /\ pc = "parse"
    /\ \A f \in DOMAIN disk : ~Raises(disk[f])
    /\ books' = ParsedBooks(disk)
    /\ bi' = 1
    /\ pc' = "dedup"
    /\ UNCHANGED <<disk, orig, by_title, deduped>>
    /\ UNCHANGED mergerVars

\* The `for fp in files` loop, when parse_book raises for a file: the
\* exception leaves build_index, no list is returned.
ParseRaises ==
    /\ pc = "parse"
    /\ \E f \in DOMAIN disk : Raises(disk[f])
    /\ books' = ParsedBooks(disk)
    /\ pc' = "aborted"
    /\ UNCHANGED <<disk, orig, by_title, bi, deduped>>
    /\ UNCHANGED mergerVars

\* One turn of the `for book in books` loop.
DedupBook ==
    /\ pc = "dedup"
    /\ bi <= Len(books)
    /\ by_title' = DedupInsert(by_title, books[bi])
    /\ bi' = bi + 1
    /\ UNCHANGED <<disk, orig, pc, books, deduped>>
    /\ UNCHANGED mergerVars

\* deduped = sorted(...); return deduped
SortBooks ==
    /\ pc = "dedup"
    /\ bi > Len(books)
    /\ deduped' = SortByActivity(by_title)
    /\ pc' = "indexed"
    /\ UNCHANGED <<disk, orig, books, by_title, bi>>
    /\ UNCHANGED mergerVars

NextIndex == ParseBooks \/ ParseRaises \/ DedupBook \/ SortBooks

SpecIndex == InitIndex /\ [][NextIndex]_vars

---------------------------------------------------------------------------
(* Properties of the merger. *)

\* A record file that parses and has a title, an author and a format.
Keyed3(data) ==
    data.json /\ data.object /\ data.title # Missing /\ data.author # Missing /\ data.format # Missing

\* The (title, author, format) class k of directory d.
ClassOf(d, k) ==
    {f \in DOMAIN d : Keyed3(d[f]) /\ <<d[f].title, d[f].author, d[f].format>> = k}

\* The classes of directory d.
KeysOf(d) ==
    {<<d[f].title, d[f].author, d[f].format>> : f \in {g \in DOMAIN d : Keyed3(d[g])}}

HighlightKeys(data) == {HighlightKey(h) : h \in Range(data.highlights)}
BookmarkKeys(data) == {BookmarkKey(b) : b \in Range(data.bookmarks)}

NoRepeatedHighlight(s) ==
    \A i, j \in 1..Len(s) : HighlightKey(s[i]) = HighlightKey(s[j]) => i = j
NoRepeatedBookmark(s) ==
    \A i, j \in 1..Len(s) : BookmarkKey(s[i]) = BookmarkKey(s[j]) => i = j

\* The keeper of the current group has been written, no file removed yet.
Written == pc = "apply" /\ ops # <<>> /\ Head(ops).op = "remove"

\* The export date of f is at least as old as that of g; no date is the
\* most recent.
NotNewer(f, g) == g.date = NoDate \/ (f.date # NoDate /\ f.date <= g.date)

\* C1: after a complete first run every (title, author, format) class has
\* exactly one member, and a second run deletes nothing, changes no file and
\* returns 0.
C1_Idempotent ==
    /\ (run = 1 /\ pc = "done") =>
           \A k \in KeysOf(orig) : Cardinality(ClassOf(disk, k)) = 1
    /\ run = 2 =>
           /\ pc \in {"scan", "done"}
           /\ disk = after1
           /\ deleted = 0

\* A second run has completed behind a first run that removed files.
C1_Witness ==
    /\ run = 2
    /\ pc = "done"
    /\ Cardinality(DOMAIN disk) < Cardinality(DOMAIN orig)

\* C2: the highlight (timestamp, quote) pairs of the merged record are the
\* union of those of the group's records, each once; and so are the bookmark
\* timestamps.
C2_NoLossNoDuplication ==
    Written =>
        LET members == Head(groups).files_data
            out == disk[keeper]
        IN  /\ HighlightKeys(out) =
                   UNION {HighlightKeys(members[i].data) : i \in 1..Len(members)}
            /\ NoRepeatedHighlight(out.highlights)
            /\ BookmarkKeys(out) =
                   UNION {BookmarkKeys(members[i].data) : i \in 1..Len(members)}
            /\ NoRepeatedBookmark(out.bookmarks)

\* Two records share a highlight and a bookmark, and each has a highlight the
\* other lacks with the timestamp of one the other has.
C2_Witness ==
    /\ Written
    /\ LET members == Head(groups).files_data
       IN  \E i, j \in 1..Len(members) :
               /\ i # j
               /\ HighlightKeys(members[i].data) \cap HighlightKeys(members[j].data) # {}
               /\ HighlightKeys(members[i].data) \ HighlightKeys(members[j].data) # {}
               /\ HighlightKeys(members[j].data) \ HighlightKeys(members[i].data) # {}
               /\ Cardinality(HighlightKeys(disk[keeper])) > MaxTs

\* C3: a failed write or remove of one group leaves every other duplicate
\* group merged down to one file.
C3_FailureIsolated ==
    pc = "crashed" =>
        \A k \in KeysOf(orig) \ {failedKey} : Cardinality(ClassOf(disk, k)) = 1

\* C6: the merged percent is the greatest percent of the group (absent and
\* null count as 0) when that is not zero, and the base's percent field as it
\* was otherwise.
C6_ProgressMaximum ==
    Written =>
        LET members == Head(groups).files_data
            best == Max({OrZero(members[i].data.percent) : i \in 1..Len(members)})
            base == CHOOSE p \in Range(members) : p.path = keeper
        IN  /\ best # 0 => disk[keeper].percent = Num(best)
            /\ best = 0 => disk[keeper].percent = base.data.percent

\* The greatest percent comes from a record that is not the base.
C6_Witness ==
    /\ Written
    /\ LET members == Head(groups).files_data
           base == CHOOSE p \in Range(members) : p.path = keeper
       IN  /\ base.data.percent = Num(1)
           /\ disk[keeper].percent = Num(MaxPct)
           /\ \E p \in Range(members) : p.data.percent = Null

\* C7: a file that does not parse or lacks title, author or format is in no
\* group, stays as it was, and the other files are still merged.
C7_UngroupableUntouched ==
    /\ \A f \in DOMAIN orig :
           ~Keyed3(orig[f]) => f \in DOMAIN disk /\ disk[f] = orig[f]
    /\ \A i \in 1..Len(groups) : \A p \in Range(groups[i].files_data) :
           Keyed3(orig[p.path])
    /\ (run = 1 /\ pc = "done") =>
           \A k \in KeysOf(orig) : Cardinality(ClassOf(disk, k)) = 1

\* A run has merged two files next to a file without an author.
C7_Witness ==
    /\ run = 1
    /\ pc = "done"
    /\ deleted > 0
    /\ \E f \in DOMAIN orig : orig[f].object /\ orig[f].author = Missing

\* C8: the keeper of a group is a member with the oldest export date, a
\* member without a date only when no member has one, and at the end of the
\* run it is the only member left.
C8_OldestIsBase ==
    /\ pc = "apply" =>
           \A p \in Range(Head(groups).files_data) : NotNewer(keeper, p.path)
    /\ (run = 1 /\ pc = "done") =>
           \A k \in KeysOf(orig) :
               \E f \in ClassOf(orig, k) :
                   /\ ClassOf(orig, k) \cap DOMAIN disk = {f}
                   /\ \A g \in ClassOf(orig, k) : NotNewer(f, g)

\* The surviving file is not the first of its group by name: a file without
\* a date and a file with a later date were removed.
C8_Witness ==
    /\ run = 1
    /\ pc = "done"
    /\ \E f \in DOMAIN disk :
           /\ \E g \in DOMAIN orig \ DOMAIN disk :
                  /\ g \in ClassOf(orig, GroupKey(orig[f]))
                  /\ FileLess(g, f)
                  /\ g.date = NoDate
           /\ \E g \in DOMAIN orig \ DOMAIN disk :
                  /\ g \in ClassOf(orig, GroupKey(orig[f]))
                  /\ FileLess(g, f)
                  /\ g.date # NoDate

\* The run stopped inside the write of the keeper: the file is neither as it
\* was before the write nor as it is after it.
PartialWrite ==
    /\ pc = "crashed"
    /\ ops # <<>>
    /\ Head(ops).op = "write"
    /\ disk[keeper] = BadJson

\* C10: the keeper is written before any file of its group is removed, and
\* in every state after a prefix of the run's writes and removes, each taken
\* as one atomic step (a run stopped by a failed operation included), every
\* highlight pair and bookmark timestamp of the original directory is in
\* some file of the directory.
C10_WriteBeforeDelete ==
    /\ Written => disk[keeper] = merged
    /\ (pc = "apply" /\ ops # <<>> /\ Head(ops).op = "write") =>
           \A p \in Range(Head(groups).files_data) : p.path \in DOMAIN disk
    /\ ~PartialWrite =>
           \A f \in DOMAIN orig :
               /\ \A k \in HighlightKeys(orig[f]) :
                      \E g \in DOMAIN disk : k \in HighlightKeys(disk[g])
               /\ \A k \in BookmarkKeys(orig[f]) :
                      \E g \in DOMAIN disk : k \in BookmarkKeys(disk[g])

\* A run has stopped on a failed remove after it removed a file whose
\* highlight was in no other file.
C10_Witness ==
    /\ pc = "crashed"
    /\ ops # <<>>
    /\ Head(ops).op = "remove"
    /\ \E f \in DOMAIN orig \ DOMAIN disk :
           \E k \in HighlightKeys(orig[f]) :
               \A g \in DOMAIN orig \ {f} : k \notin HighlightKeys(orig[g])

---------------------------------------------------------------------------
(* Properties of the index. *)

\* The files of the directory that hold a JSON object, and the titleId
\* parse_book gives.
Parsed == {f \in DOMAIN disk : disk[f].json /\ disk[f].object}
TitleIdOf(f) == IF disk[f].titleId = NoTitleId THEN "" ELSE disk[f].titleId

\* The positions of the returned list that hold an entry of titleId tid.
EntriesOf(tid) == {i \in 1..Len(deduped) : deduped[i].titleId = tid}

\* C4: every non-empty titleId of a parsed record has exactly one entry in
\* the returned list, the one of the record with the greatest file name.
C4_OneEntryPerTitleId ==
    pc = "indexed" =>
        \A f \in Parsed :
            TitleIdOf(f) # "" =>
                /\ Cardinality(EntriesOf(TitleIdOf(f))) = 1
                /\ \A i \in EntriesOf(TitleIdOf(f)) :
                       /\ TitleIdOf(deduped[i].file) = TitleIdOf(f)
                       /\ ~FileLess(deduped[i].file, f)

\* C5: every parsed record with an empty or missing titleId has its own
\* entry in the returned list.
C5_EmptyTitleIdSurvives ==
    pc = "indexed" =>
        \A f \in Parsed :
            TitleIdOf(f) = "" => \E i \in 1..Len(deduped) : deduped[i].file = f

\* C9: the returned list is non-increasing in lastActivity, None as 0.
C9_SortedByActivity ==
    pc = "indexed" =>
        \A i \in 1..(Len(deduped) - 1) :
            OrZero(deduped[i].lastActivity) >= OrZero(deduped[i + 1].lastActivity)

\* Three entries came out in another order than their files: an entry
\* without activity is last and the most recent one is not the first file.
C9_Witness ==
    /\ pc = "indexed"
    /\ Len(deduped) = 3
    /\ deduped[3].lastActivity = Null
    /\ deduped[1].lastActivity = Num(MaxTs)
    /\ deduped[2].lastActivity = Num(1)
    /\ FileLess(deduped[3].file, deduped[2].file)
    /\ FileLess(deduped[2].file, deduped[1].file)

===========================================================================
